---- MODULE Spec2Model ----
(***************************************************************************)
(* The data handler of wMAL/trackma (src/modules/data.py, class Data):     *)
(* the list cache, the update queue, the lock file and the queue drain.    *)
(*                                                                         *)
(* Python dictionaries are objects: a show passed to queue_add is stored   *)
(* in the show list and appended to the queue as the same object, so the   *)
(* model keeps a heap of dictionaries and lets show list and queue hold    *)
(* references into it.  cPickle.dump writes a value snapshot, cPickle.load *)
(* builds fresh objects.  Data.queue is a class attribute: a handler that  *)
(* never assigns self.queue works on the list shared by all handlers of    *)
(* its process.                                                            *)
(***************************************************************************)
EXTENDS Integers, Sequences, FiniteSets, TLC

\* ------------------------------------------------------------ bounds
\* number of dictionaries that may be alive at once
MaxObj == 6
\* number of mutating calls (queue_add, queue_update, queue_clear,
\* process_queue) in one run
MaxOps == 3
\* number of handlers constructed in one run, the first one included
MaxLives == 2

\* ------------------------------------------------------------ domains
Procs == {1, 2}
Dirs == {1, 2}
ObjIds == 1 .. MaxObj

\* show identities, in the order a pickled show list is read back
KeyOrder == <<"a", "b">>
ShowIds == {KeyOrder[i] : i \in 1 .. Len(KeyOrder)}

\* the fields a dictionary may carry, and the values the callers pass
Fields == {"id", "title", "score", "action"}
Vals(k) ==
    CASE k = "id" -> ShowIds
      [] k = "title" -> {"X", "Y"}
      [] k = "score" -> {"0", "1"}
      [] k = "action" -> {"add", "update", "zap"}
      [] OTHER -> {"1"}
\* the keys queue_update is called with; "status" is a key no show has
UpdateKeys == Fields \cup {"status"}

\* what api.fetch_list() may return: the remote list is empty or holds show a
RemoteLists ==
    {[k \in {} |-> [id |-> k]],
     [k \in {"a"} |-> [id |-> "a", title |-> "X", score |-> "0"]]}
\* the outcomes of api.fetch_list(): <<>> for APIError, else <<the list>>
FetchResults == {<<>>} \cup {<<l>> : l \in RemoteLists}
\* the shows the callers hand to queue_add
NewShows == {[id |-> i, title |-> "X"] : i \in ShowIds}

VARIABLES
    lockFile,    \* [Dirs -> BOOLEAN]: os.path.isfile(self.lock_file)
    cacheFile,   \* [Dirs -> <<>> or <<pickled show list>>]
    queueFile,   \* [Dirs -> <<>> or <<pickled queue>>]
    heap,        \* the live dictionaries: object id -> dictionary
    classQueue,  \* [Procs -> Seq(ObjIds)]: the class attribute Data.queue
    pc,          \* [Procs -> position of the process's current handler]
    dir,         \* [Procs -> Dirs]: the data directory of the handler
    showlist,    \* [Procs -> show id -> object id]: self.showlist
    instQueue,   \* [Procs -> Seq(ObjIds)]: self.queue once assigned
    hasInst,     \* [Procs -> BOOLEAN]: self.queue was assigned
    drainN,      \* [Procs -> Nat]: len(self.queue) taken by xrange
    drainI,      \* [Procs -> Nat]: iterations of the drain loop done
    caller,      \* [Procs -> who called process_queue]
    drainOrig,   \* [Procs -> Seq(ObjIds)]: the queue when the drain began
    attempts,    \* [Procs -> Seq]: items the drain took, with the outcome
    ret,         \* [Procs -> the last finished call and how it ended]
    ops,         \* mutating calls made so far
    lives        \* handlers constructed so far

vars == <<lockFile, cacheFile, queueFile, heap, classQueue, pc, dir, showlist,
          instQueue, hasInst, drainN, drainI, caller, drainOrig, attempts,
          ret, ops, lives>>

files == <<lockFile, cacheFile, queueFile>>
drainVars == <<drainN, drainI, caller, drainOrig, attempts>>

\* ------------------------------------------------------------ helpers
EmptyMap == [k \in {} |-> 0]

\* d[k] = v on a dictionary
SetField(rec, k, v) == [f \in DOMAIN rec \cup {k} |-> IF f = k THEN v ELSE rec[f]]

\* self.queue: the instance attribute if assigned, else the class attribute
Queue(p) == IF hasInst[p] THEN instQueue[p] ELSE classQueue[p]

Min(S) == CHOOSE x \in S : \A y \in S : x <= y

\* the objects a process can still reach
Reach(sl, iq, cq) ==
    UNION {{sl[p][k] : k \in DOMAIN sl[p]} : p \in Procs}
    \cup UNION {{iq[p][i] : i \in 1 .. Len(iq[p])} : p \in Procs}
    \cup UNION {{cq[p][i] : i \in 1 .. Len(cq[p])} : p \in Procs}

\* the heap without the dictionaries nothing refers to any more
Collect(hp, sl, iq, cq) ==
    [o \in DOMAIN hp \cap Reach(sl, iq, cq) |-> hp[o]]

\* the object ids of n fresh dictionaries
RECURSIVE FreshIds(_, _)
FreshIds(used, n) ==
    IF n = 0 THEN <<>>
    ELSE LET o == Min(ObjIds \ used)
         IN <<o>> \o FreshIds(used \cup {o}, n - 1)

CanAlloc(hp, n) == Cardinality(ObjIds \ DOMAIN hp) >= n

\* the heap with dictionary recs[i] stored at ids[i]
Store(hp, ids, recs) ==
    [o \in DOMAIN hp \cup {ids[i] : i \in 1 .. Len(ids)} |->
        IF \E i \in 1 .. Len(ids) : ids[i] = o
        THEN recs[CHOOSE i \in 1 .. Len(ids) : ids[i] = o]
        ELSE hp[o]]

\* the keys of a show list in pickle order
KeysOf(m) == SelectSeq(KeyOrder, LAMBDA k : k \in DOMAIN m)

\* cPickle.dump(self.showlist, ...): the value of every show
PickleList(hp, sl) == [k \in DOMAIN sl |-> hp[sl[k]]]
\* a dump that misses the item appended last
PickleQueueShort(hp, q) == [i \in 1 .. Len(q) - 1 |-> hp[q[i]]]

\* cPickle.dump(self.queue, ...): the value of every item
PickleQueue(hp, q) == [i \in 1 .. Len(q) |-> hp[q[i]]]

\* ------------------------------------------------------------ initial state
Init ==
    /\ lockFile = [d \in Dirs |-> FALSE]
    /\ cacheFile = [d \in Dirs |-> <<>>]
    /\ queueFile = [d \in Dirs |-> <<>>]
    /\ heap = EmptyMap
    /\ classQueue = [p \in Procs |-> <<>>]
    /\ pc = [p \in Procs |-> "new"]
    /\ dir = [p \in Procs |-> 1]
    /\ showlist = [p \in Procs |-> EmptyMap]
    /\ instQueue = [p \in Procs |-> <<>>]
    /\ hasInst = [p \in Procs |-> FALSE]
    /\ drainN = [p \in Procs |-> 0]
    /\ drainI = [p \in Procs |-> 0]
    /\ caller = [p \in Procs |-> "none"]
    /\ drainOrig = [p \in Procs |-> <<>>]
    /\ attempts = [p \in Procs |-> <<>>]
    /\ ret = [p \in Procs |-> [op |-> "init", err |-> "none"]]
    /\ ops = 0
    /\ lives = 1

\* ------------------------------------------------------------ construction
\* Data.__init__ in a process that already ran a handler: the class attribute
\* Data.queue keeps the list the earlier handlers appended to
NewHandler(p, d) ==
    /\ pc[p] \in {"unloaded", "failed"}
    /\ lives < MaxLives
    /\ lives' = lives + 1
    /\ pc' = [pc EXCEPT ![p] = "new"]
    /\ dir' = [dir EXCEPT ![p] = d]
    /\ showlist' = [showlist EXCEPT ![p] = EmptyMap]
    /\ instQueue' = [instQueue EXCEPT ![p] = <<>>]
    /\ hasInst' = [hasInst EXCEPT ![p] = FALSE]
    /\ heap' = Collect(heap, showlist', instQueue', classQueue)
    /\ drainN' = [drainN EXCEPT ![p] = 0]
    /\ drainI' = [drainI EXCEPT ![p] = 0]
    /\ caller' = [caller EXCEPT ![p] = "none"]
    /\ drainOrig' = [drainOrig EXCEPT ![p] = <<>>]
    /\ attempts' = [attempts EXCEPT ![p] = <<>>]
    /\ UNCHANGED <<files, classQueue, ret, ops>>

\* the process ends and the program is run again: the class body is executed
\* anew (queue = list()), then Data.__init__
RestartProcess(p, d) ==
    /\ pc[p] \in {"unloaded", "failed"}
    /\ lives < MaxLives
    /\ lives' = lives + 1
    /\ pc' = [pc EXCEPT ![p] = "new"]
    /\ dir' = [dir EXCEPT ![p] = d]
    /\ showlist' = [showlist EXCEPT ![p] = EmptyMap]
    /\ instQueue' = [instQueue EXCEPT ![p] = <<>>]
    /\ hasInst' = [hasInst EXCEPT ![p] = FALSE]
    /\ classQueue' = [classQueue EXCEPT ![p] = <<>>]
    /\ heap' = Collect(heap, showlist', instQueue', classQueue')
    /\ drainN' = [drainN EXCEPT ![p] = 0]
    /\ drainI' = [drainI EXCEPT ![p] = 0]
    /\ caller' = [caller EXCEPT ![p] = "none"]
    /\ drainOrig' = [drainOrig EXCEPT ![p] = <<>>]
    /\ attempts' = [attempts EXCEPT ![p] = <<>>]
    /\ UNCHANGED <<files, ret, ops>>

\* ------------------------------------------------------------ start()
\* _lock, first half: the test of os.path.isfile(self.lock_file)
LockCheck(p) ==
    /\ pc[p] = "new"
    /\ IF lockFile[dir[p]]
       THEN /\ pc' = [pc EXCEPT ![p] = "failed"]
            /\ ret' = [ret EXCEPT ![p] = [op |-> "start", err |-> "LockHeld"]]
       ELSE /\ pc' = [pc EXCEPT ![p] = "locking"]
            /\ ret' = ret
    /\ UNCHANGED <<files, heap, classQueue, dir, showlist, instQueue, hasInst,
                   drainVars, ops, lives>>

\* _lock, second half: open(self.lock_file, 'w') creates the marker
LockCreate(p) ==
    /\ pc[p] = "locking"
    /\ lockFile' = [lockFile EXCEPT ![dir[p]] = TRUE]
    /\ pc' = [pc EXCEPT ![p] = "loading"]
    /\ UNCHANGED <<cacheFile, queueFile, heap, classQueue, dir, showlist,
                   instQueue, hasInst, drainVars, ret, ops, lives>>

\* a start() that takes the cache for missing whatever the disk holds
CacheExistsNever(d) == FALSE

\* a start() that never finds the queue file
QueueExistsNever(d) == FALSE

\* _cache_exists and _queue_exists: os.path.isfile on the two files
CacheExists(d) == cacheFile[d] # <<>>
QueueExists(d) == queueFile[d] # <<>>

\* the rest of start(): the cache is loaded, or the list is fetched and
\* saved; then the queue is loaded if its file exists.  fetch is what
\* api.fetch_list() would answer
StartLoad(p, fetch) ==
    /\ pc[p] = "loading"
    /\ LET d == dir[p]
           cached == CacheExists(d)
           list == IF cached THEN cacheFile[d][1] ELSE fetch[1]
           items == IF QueueExists(d) THEN queueFile[d][1] ELSE <<>>
           keys == KeysOf(list)
           ids == FreshIds(DOMAIN heap, Len(keys) + Len(items))
           lids == SubSeq(ids, 1, Len(keys))
           qids == SubSeq(ids, Len(keys) + 1, Len(ids))
           recs == [i \in 1 .. Len(keys) |-> list[keys[i]]] \o items
       IN IF ~cached /\ fetch = <<>>
          THEN \* download_data raises APIError: start raises APIFatal
               /\ pc' = [pc EXCEPT ![p] = "failed"]
               /\ ret' = [ret EXCEPT ![p] =
                            [op |-> "start", err |-> "APIFatal", fetch |-> "APIError"]]
               /\ UNCHANGED <<files, heap, showlist, instQueue, hasInst>>
          ELSE \* with a cache the API is not asked: one outcome stands for all
               /\ cached => fetch = <<>>
               /\ CanAlloc(heap, Len(keys) + Len(items))
               /\ showlist' = [showlist EXCEPT ![p] =
                      [k \in DOMAIN list |->
                          lids[CHOOSE i \in 1 .. Len(keys) : keys[i] = k]]]
               /\ cacheFile' = IF cached THEN cacheFile
                               ELSE [cacheFile EXCEPT ![d] = <<list>>]
               /\ IF QueueExists(d)
                  THEN /\ instQueue' = [instQueue EXCEPT ![p] = qids]
                       /\ hasInst' = [hasInst EXCEPT ![p] = TRUE]
                  ELSE UNCHANGED <<instQueue, hasInst>>
               /\ heap' = Collect(Store(heap, ids, recs),
                                  showlist', instQueue', classQueue)
               /\ pc' = [pc EXCEPT ![p] = "started"]
               /\ ret' = [ret EXCEPT ![p] =
                            [op |-> "start", err |-> "none",
                             fetch |-> IF cached THEN "none" ELSE "ok",
                             list |-> list]]
               /\ UNCHANGED <<lockFile, queueFile>>
    /\ UNCHANGED <<classQueue, dir, drainVars, ops, lives>>

\* ------------------------------------------------------------ get()
\* get(): the show list in memory, as values
Get(p) == PickleList(heap, showlist[p])

\* ------------------------------------------------------------ queue_add
\* some item of the queue q is an add of showid (the scan of queue_add)
AddQueued(hp, q, showid) ==
    \E i \in 1 .. Len(q) : hp[q[i]]["id"] = showid /\ hp[q[i]]["action"] = "add"

\* item = show; item['action'] = 'add': the item is the show itself
AddItem(hp, o) == [hp EXCEPT ![o] = SetField(hp[o], "action", "add")]

QueueAdd(p, show) ==
    /\ pc[p] = "started"
    /\ ops < MaxOps
    /\ ops' = ops + 1
    /\ LET showid == show["id"]
           o == Min(ObjIds \ DOMAIN heap)
           hp1 == Store(heap, <<o>>, <<show>>)
           sl1 == [k \in DOMAIN showlist[p] \cup {showid} |->
                      IF k = showid THEN o ELSE showlist[p][k]]
           hp2 == AddItem(hp1, o)
           q2 == Append(Queue(p), o)
       IN IF showid \in DOMAIN showlist[p]
          THEN /\ ret' = [ret EXCEPT ![p] =
                            [op |-> "queue_add", err |-> "DuplicateShow", show |-> show]]
               /\ UNCHANGED <<files, heap, classQueue, showlist, instQueue>>
          ELSE /\ CanAlloc(heap, 1)
               /\ showlist' = [showlist EXCEPT ![p] = sl1]
               /\ IF AddQueued(hp1, Queue(p), showid)
                  THEN /\ ret' = [ret EXCEPT ![p] =
                                    [op |-> "queue_add", err |-> "DuplicateQueueItem",
                                     show |-> show]]
                       /\ heap' = hp1
                       /\ UNCHANGED <<files, classQueue, instQueue>>
                  ELSE /\ ret' = [ret EXCEPT ![p] =
                                    [op |-> "queue_add", err |-> "none",
                                     show |-> show, obj |-> o]]
                       /\ heap' = hp2
                       /\ IF hasInst[p]
                          THEN /\ instQueue' = [instQueue EXCEPT ![p] = q2]
                               /\ classQueue' = classQueue
                          ELSE /\ classQueue' = [classQueue EXCEPT ![p] = q2]
                               /\ instQueue' = instQueue
                       /\ queueFile' = [queueFile EXCEPT ![dir[p]] =
                                           <<PickleQueue(hp2, q2)>>]
                       /\ cacheFile' = [cacheFile EXCEPT ![dir[p]] =
                                           <<PickleList(hp2, sl1)>>]
                       /\ lockFile' = lockFile
    /\ UNCHANGED <<pc, dir, hasInst, drainVars, lives>>

\* ------------------------------------------------------------ queue_update
\* the first item of the queue q that is an update of showid, 0 if none
UpdateIndex(hp, q, showid) ==
    LET hits == {i \in 1 .. Len(q) :
                    hp[q[i]]["id"] = showid /\ hp[q[i]]["action"] = "update"}
    IN IF hits = {} THEN 0 ELSE Min(hits)

\* item = {'id': show['id'], 'action': 'update', 'title': show['title']};
\* item[key] = value
UpdateItem(show, key, value) ==
    SetField([id |-> show["id"], action |-> "update", title |-> show["title"]],
             key, value)

\* a queue_update that accepts every key
ValidKeyAny(show, key) == TRUE

\* key in show.keys()
ValidKey(show, key) == key \in DOMAIN show

\* queue_update(show, key, value) for the show stored under k in the list
QueueUpdate(p, k, key, value) ==
    /\ pc[p] = "started"
    /\ ops < MaxOps
    /\ ops' = ops + 1
    /\ k \in DOMAIN showlist[p]
    /\ LET o == showlist[p][k]
           hp1 == [heap EXCEPT ![o] = SetField(heap[o], key, value)]
           q == Queue(p)
           j == UpdateIndex(hp1, q, hp1[o]["id"])
           n == Min(ObjIds \ DOMAIN heap)
           hp2 == IF j # 0
                  THEN [hp1 EXCEPT ![q[j]] = SetField(hp1[q[j]], key, value)]
                  ELSE Store(hp1, <<n>>, <<UpdateItem(hp1[o], key, value)>>)
           q2 == IF j # 0 THEN q ELSE Append(q, n)
       IN IF ~ValidKey(heap[o], key)
          THEN /\ ret' = [ret EXCEPT ![p] =
                            [op |-> "queue_update", err |-> "InvalidKey",
                             id |-> heap[o]["id"], obj |-> o,
                             key |-> key, val |-> value]]
               /\ UNCHANGED <<files, heap, classQueue, instQueue>>
          ELSE /\ j = 0 => CanAlloc(heap, 1)
               /\ ret' = [ret EXCEPT ![p] =
                            [op |-> "queue_update", err |-> "none",
                             id |-> hp1[o]["id"], obj |-> o,
                             key |-> key, val |-> value]]
               /\ heap' = hp2
               /\ IF hasInst[p]
                  THEN /\ instQueue' = [instQueue EXCEPT ![p] = q2]
                       /\ classQueue' = classQueue
                  ELSE /\ classQueue' = [classQueue EXCEPT ![p] = q2]
                       /\ instQueue' = instQueue
               /\ queueFile' = [queueFile EXCEPT ![dir[p]] =
                                   <<PickleQueue(hp2, q2)>>]
               /\ cacheFile' = [cacheFile EXCEPT ![dir[p]] =
                                   <<PickleList(hp2, showlist[p])>>]
               /\ lockFile' = lockFile
    /\ UNCHANGED <<pc, dir, showlist, hasInst, drainVars, lives>>

\* ------------------------------------------------------------ queue_clear
\* a queue_clear that empties the queue in memory and does not save it
QueueClearNoSave(p) ==
    /\ pc[p] = "started"
    /\ ops < MaxOps
    /\ ops' = ops + 1
    /\ IF Len(Queue(p)) = 0
       THEN /\ ret' = [ret EXCEPT ![p] = [op |-> "queue_clear", err |-> "EmptyQueue"]]
            /\ UNCHANGED <<files, heap, instQueue, hasInst>>
       ELSE /\ ret' = [ret EXCEPT ![p] = [op |-> "queue_clear", err |-> "none"]]
            /\ instQueue' = [instQueue EXCEPT ![p] = <<>>]
            /\ hasInst' = [hasInst EXCEPT ![p] = TRUE]
            /\ heap' = Collect(heap, showlist, instQueue', classQueue)
            /\ UNCHANGED files
    /\ UNCHANGED <<classQueue, pc, dir, showlist, drainVars, lives>>

QueueClear(p) ==
    /\ pc[p] = "started"
    /\ ops < MaxOps
    /\ ops' = ops + 1
    /\ IF Len(Queue(p)) = 0
       THEN /\ ret' = [ret EXCEPT ![p] = [op |-> "queue_clear", err |-> "EmptyQueue"]]
            /\ UNCHANGED <<files, heap, instQueue, hasInst>>
       ELSE /\ ret' = [ret EXCEPT ![p] = [op |-> "queue_clear", err |-> "none"]]
            /\ instQueue' = [instQueue EXCEPT ![p] = <<>>]
            /\ hasInst' = [hasInst EXCEPT ![p] = TRUE]
            /\ queueFile' = [queueFile EXCEPT ![dir[p]] = <<<<>>>>]
            /\ heap' = Collect(heap, showlist, instQueue', classQueue)
            /\ UNCHANGED <<lockFile, cacheFile>>
    /\ UNCHANGED <<classQueue, pc, dir, showlist, drainVars, lives>>

\* ------------------------------------------------------------ process_queue
\* the API call an item is sent with, "none" for an unknown operation
Dispatch(item) ==
    LET operation == IF "action" \in DOMAIN item THEN item["action"] ELSE "None"
    IN CASE operation = "add" -> "add_show"
         [] operation = "update" -> "update_show"
         [] operation = "delete" -> "delete_show"
         [] OTHER -> "none"

\* process_queue() is entered by who ("unload" or "process_queue"): with an
\* empty queue it returns at once, else the loop over xrange(len(queue)) starts
DrainBegin(p, who) ==
    /\ drainOrig' = [drainOrig EXCEPT ![p] = Queue(p)]
    /\ attempts' = [attempts EXCEPT ![p] = <<>>]
    /\ caller' = [caller EXCEPT ![p] = who]
    /\ drainI' = [drainI EXCEPT ![p] = 0]
    /\ drainN' = [drainN EXCEPT ![p] = Len(Queue(p))]
    /\ pc' = [pc EXCEPT ![p] =
                IF Len(Queue(p)) # 0 THEN "drain"
                ELSE IF who = "unload" THEN "unlocking" ELSE "started"]
    /\ ret' = [ret EXCEPT ![p] =
                 IF Len(Queue(p)) = 0 /\ who = "process_queue"
                 THEN [op |-> "process_queue", err |-> "none"]
                 ELSE ret[p]]
    /\ UNCHANGED <<files, heap, classQueue, dir, showlist, instQueue, hasInst, lives>>

\* a direct call of process_queue()
ProcessQueue(p) ==
    /\ pc[p] = "started"
    /\ ops < MaxOps
    /\ ops' = ops + 1
    /\ DrainBegin(p, "process_queue")

\* an unload() that goes on to _unlock without running process_queue()
UnloadSkipDrain(p) ==
    /\ pc[p] = "started"
    /\ ops' = ops
    /\ drainOrig' = [drainOrig EXCEPT ![p] = Queue(p)]
    /\ attempts' = [attempts EXCEPT ![p] = <<>>]
    /\ caller' = [caller EXCEPT ![p] = "unload"]
    /\ drainI' = [drainI EXCEPT ![p] = 0]
    /\ drainN' = [drainN EXCEPT ![p] = Len(Queue(p))]
    /\ pc' = [pc EXCEPT ![p] = "unlocking"]
    /\ UNCHANGED <<files, heap, classQueue, dir, showlist, instQueue, hasInst,
                   ret, lives>>

\* unload(): process_queue() first
Unload(p) ==
    /\ pc[p] = "started"
    /\ ops' = ops
    /\ DrainBegin(p, "unload")

\* a loop that forgets the item whose API call failed
AfterAttemptDrop(q, failed) == Tail(q)

\* a loop that puts the failed item back at the head (insert(0, show))
AfterAttemptFront(q, failed) == IF failed THEN q ELSE Tail(q)

\* the queue after one iteration: the head is popped, and appended again if
\* its API call raised APIError
AfterAttempt(q, failed) ==
    IF failed THEN Append(Tail(q), Head(q)) ELSE Tail(q)

\* one iteration of the loop; ok says whether the API call succeeds
DrainStep(p, ok) ==
    /\ pc[p] = "drain"
    /\ drainI[p] < drainN[p]
    /\ LET q == Queue(p)
           show == Head(q)
           call == Dispatch(heap[show])
           failed == call # "none" /\ ~ok
           q2 == AfterAttempt(q, failed)
       IN /\ call = "none" => ok
          /\ attempts' = [attempts EXCEPT ![p] =
                Append(@, [obj |-> show, call |-> call,
                           result |-> IF call = "none" THEN "skipped"
                                      ELSE IF ok THEN "ok" ELSE "failed"])]
          /\ IF hasInst[p]
             THEN /\ instQueue' = [instQueue EXCEPT ![p] = q2]
                  /\ classQueue' = classQueue
             ELSE /\ classQueue' = [classQueue EXCEPT ![p] = q2]
                  /\ instQueue' = instQueue
          /\ heap' = Collect(heap, showlist, instQueue', classQueue')
    /\ drainI' = [drainI EXCEPT ![p] = @ + 1]
    /\ UNCHANGED <<files, pc, dir, showlist, hasInst, drainN, caller, drainOrig,
                   ret, ops, lives>>

\* a process_queue that returns after the loop without _save_queue()
DrainSaveSkip(p) ==
    /\ pc[p] = "drain"
    /\ drainI[p] = drainN[p]
    /\ pc' = [pc EXCEPT ![p] = IF caller[p] = "unload" THEN "unlocking" ELSE "started"]
    /\ ret' = [ret EXCEPT ![p] =
                 IF caller[p] = "unload" THEN ret[p]
                 ELSE [op |-> "process_queue", err |-> "none"]]
    /\ UNCHANGED <<files, heap, classQueue, dir, showlist, instQueue,
                   hasInst, drainVars, ops, lives>>

\* after the loop: self._save_queue(), and process_queue returns
DrainSave(p) ==
    /\ pc[p] = "drain"
    /\ drainI[p] = drainN[p]
    /\ queueFile' = [queueFile EXCEPT ![dir[p]] = <<PickleQueue(heap, Queue(p))>>]
    /\ pc' = [pc EXCEPT ![p] = IF caller[p] = "unload" THEN "unlocking" ELSE "started"]
    /\ ret' = [ret EXCEPT ![p] =
                 IF caller[p] = "unload" THEN ret[p]
                 ELSE [op |-> "process_queue", err |-> "none"]]
    /\ UNCHANGED <<lockFile, cacheFile, heap, classQueue, dir, showlist, instQueue,
                   hasInst, drainVars, ops, lives>>

\* ------------------------------------------------------------ unload(), end
\* an _unlock that leaves the marker file
UnlockKeep(p) ==
    /\ pc[p] = "unlocking"
    /\ pc' = [pc EXCEPT ![p] = "unloaded"]
    /\ ret' = [ret EXCEPT ![p] = [op |-> "unload", err |-> "none"]]
    /\ UNCHANGED <<files, heap, classQueue, dir, showlist,
                   instQueue, hasInst, drainVars, ops, lives>>

\* _unlock: os.unlink(self.lock_file), which raises OSError if there is no file
Unlock(p) ==
    /\ pc[p] = "unlocking"
    /\ IF lockFile[dir[p]]
       THEN /\ lockFile' = [lockFile EXCEPT ![dir[p]] = FALSE]
            /\ pc' = [pc EXCEPT ![p] = "unloaded"]
            /\ ret' = [ret EXCEPT ![p] = [op |-> "unload", err |-> "none"]]
       ELSE /\ lockFile' = lockFile
            /\ pc' = [pc EXCEPT ![p] = "failed"]
            /\ ret' = [ret EXCEPT ![p] = [op |-> "unload", err |-> "OSError"]]
    /\ UNCHANGED <<cacheFile, queueFile, heap, classQueue, dir, showlist,
                   instQueue, hasInst, drainVars, ops, lives>>

\* ------------------------------------------------------------ specifications
\* what one process does with its handler in data directory d
Step(p, d) ==
    \/ NewHandler(p, d)
    \/ RestartProcess(p, d)
    \/ LockCheck(p)
    \/ LockCreate(p)
    \/ \E fetch \in FetchResults : StartLoad(p, fetch)
    \/ \E show \in NewShows : QueueAdd(p, show)
    \/ \E k \in ShowIds, key \in UpdateKeys : \E value \in Vals(key) :
          QueueUpdate(p, k, key, value)
    \/ QueueClear(p)
    \/ ProcessQueue(p)
    \/ Unload(p)
    \/ \E ok \in BOOLEAN : DrainStep(p, ok)
    \/ DrainSave(p)
    \/ Unlock(p)

\* one process, one data directory: the single caller the handler is written for
Next == Step(1, 1)

Spec == Init /\ [][Next]_vars

\* the life cycle of a handler: start, additions, unload, and again
LifeCycle(p, d) ==
    \/ NewHandler(p, d)
    \/ LockCheck(p)
    \/ LockCreate(p)
    \/ \E fetch \in FetchResults : StartLoad(p, fetch)
    \/ \E show \in NewShows : QueueAdd(p, show)
    \/ Unload(p)
    \/ \E ok \in BOOLEAN : DrainStep(p, ok)
    \/ DrainSave(p)
    \/ Unlock(p)

\* two processes on the same data directory, their steps interleaved
NextLock == \E p \in Procs : LifeCycle(p, 1)

SpecLock == Init /\ [][NextLock]_vars

\* one process whose successive handlers use either data directory
NextDirs == \E d \in Dirs : LifeCycle(1, d)

SpecDirs == Init /\ [][NextDirs]_vars

\* the program is run again and again: as RestartProcess, with the count of
\* lifetimes stopping at MaxLives
Rerun(p, d) ==
    /\ pc[p] \in {"unloaded", "failed"}
    /\ lives' = IF lives < MaxLives THEN lives + 1 ELSE lives
    /\ pc' = [pc EXCEPT ![p] = "new"]
    /\ dir' = [dir EXCEPT ![p] = d]
    /\ showlist' = [showlist EXCEPT ![p] = EmptyMap]
    /\ instQueue' = [instQueue EXCEPT ![p] = <<>>]
    /\ hasInst' = [hasInst EXCEPT ![p] = FALSE]
    /\ classQueue' = [classQueue EXCEPT ![p] = <<>>]
    /\ heap' = Collect(heap, showlist', instQueue', classQueue')
    /\ drainN' = [drainN EXCEPT ![p] = 0]
    /\ drainI' = [drainI EXCEPT ![p] = 0]
    /\ caller' = [caller EXCEPT ![p] = "none"]
    /\ drainOrig' = [drainOrig EXCEPT ![p] = <<>>]
    /\ attempts' = [attempts EXCEPT ![p] = <<>>]
    /\ UNCHANGED <<files, ret, ops>>

\* the answers of the remote service to the call for a queued item: from the
\* last counted lifetime on, every call succeeds
ApiAnswers == IF lives < MaxLives THEN BOOLEAN ELSE {TRUE}

\* start()/unload() cycles of one program on one data directory, run after
\* run; the additions end after MaxOps calls
NextCycle ==
    \/ Rerun(1, 1)
    \/ LockCheck(1)
    \/ LockCreate(1)
    \/ \E fetch \in FetchResults : StartLoad(1, fetch)
    \/ \E show \in NewShows : QueueAdd(1, show)
    \/ Unload(1)
    \/ \E ok \in ApiAnswers : DrainStep(1, ok)
    \/ DrainSave(1)
    \/ Unlock(1)

\* the cycles go on: a step that can be taken is taken
SpecCycle == Init /\ [][NextCycle]_vars /\ WF_vars(NextCycle)

\* ------------------------------------------------------------ claims
\* self.queue of process p in the next state
QueueNext(p) == IF hasInst'[p] THEN instQueue'[p] ELSE classQueue'[p]

\* the step is a whole call of the mutating operation name by process p
Called(p, name) ==
    /\ ops' = ops + 1
    /\ pc[p] = "started"
    /\ pc'[p] = "started"
    /\ ret'[p]["op"] = name

\* the handlers that have passed the lock step of start() on directory d and
\* have not unloaded yet
Holders(d) ==
    {p \in Procs : dir[p] = d /\ pc[p] \in {"loading", "started", "drain", "unlocking"}}

\* C1: for one data directory, at most one live handler has completed the
\* lock step of start() and not yet unloaded, also when two processes run
\* start() at the same time.
C1_MutualExclusion == \A d \in Dirs : Cardinality(Holders(d)) <= 1

\* C2: in one sequential caller, _lock() with the marker absent creates the
\* marker and succeeds; with the marker present it fails with the fatal error
\* and leaves the marker; _unlock() removes the marker, so the _lock() of the
\* next handler succeeds again.
C2_LockRoundTrip ==
    [][\A p \in Procs :
         /\ (pc[p] = "new" /\ pc'[p] # "new" /\ lockFile[dir[p]])
               => /\ pc'[p] = "failed"
                  /\ ret'[p]["err"] = "LockHeld"
                  /\ lockFile' = lockFile
         /\ (pc[p] = "new" /\ pc'[p] # "new" /\ ~lockFile[dir[p]])
               => pc'[p] = "locking"
         /\ (pc[p] = "locking" /\ pc'[p] # "locking")
               => pc'[p] = "loading" /\ lockFile'[dir[p]]
         /\ (pc[p] = "unlocking" /\ pc'[p] # "unlocking")
               => pc'[p] = "unloaded" /\ ~lockFile'[dir[p]]
         /\ (pc[p] = "new" /\ pc'[p] # "new" /\ ret[p]["op"] = "unload")
               => pc'[p] = "locking"]_vars

\* C2 witness: a handler holds the marker again after an earlier handler of
\* the caller locked and unlocked
C2_Witness ==
    /\ pc[1] = "loading"
    /\ lockFile[1]
    /\ lives = 2
    /\ ret[1] = [op |-> "unload", err |-> "none"]

\* C3: queue_add(s) for a show whose id is not in the show list succeeds, and
\* afterwards get() maps s.id to s and the queue has gained exactly one add
\* item for s.id at its tail; for a show whose id is in the show list it fails
\* with the duplicate-show error.
C3_QueueAdd ==
    [][\A p \in Procs :
         Called(p, "queue_add") =>
            LET show == ret'[p]["show"]
                q == Queue(p)
                q2 == QueueNext(p)
            IN IF show["id"] \in DOMAIN showlist[p]
               THEN ret'[p]["err"] = "DuplicateShow"
               ELSE /\ ret'[p]["err"] = "none"
                    /\ show["id"] \in DOMAIN showlist'[p]
                    /\ showlist'[p][show["id"]] = ret'[p]["obj"]
                    /\ \A f \in DOMAIN show :
                          heap'[ret'[p]["obj"]][f] = show[f]
                    /\ Len(q2) = Len(q) + 1
                    /\ SubSeq(q2, 1, Len(q)) = q
                    /\ heap'[q2[Len(q2)]]["id"] = show["id"]
                    /\ heap'[q2[Len(q2)]]["action"] = "add"]_vars

\* the key under which the show list of p holds the object o
KeyOfObj(p, o) == CHOOSE k \in DOMAIN showlist[p] : showlist[p][k] = o

\* C4: for a show s of the show list, queue_update(s, k, v) with k a field of
\* s sets s[k] = v in memory, so that get() shows v; with k not a field of s it
\* fails with the invalid-key error and leaves the show, the show list and the
\* queue as they were.
C4_QueueUpdate ==
    [][\A p \in Procs :
         Called(p, "queue_update") =>
            LET o == ret'[p]["obj"]
                key == ret'[p]["key"]
            IN IF key \in DOMAIN heap[o]
               THEN /\ ret'[p]["err"] = "none"
                    /\ heap'[o][key] = ret'[p]["val"]
                    /\ showlist' = showlist
                    /\ Get(p)'[KeyOfObj(p, o)][key] = ret'[p]["val"]
               ELSE /\ ret'[p]["err"] = "InvalidKey"
                    /\ heap' = heap
                    /\ showlist' = showlist
                    /\ QueueNext(p) = Queue(p)
                    /\ Get(p)' = Get(p)
                    /\ UNCHANGED <<classQueue, instQueue, hasInst, files>>]_vars

\* C4 witness: an update of an existing field has just been made and get()
\* shows the new value, which differs from the value the show was created with
C4_Witness ==
    /\ pc[1] = "started"
    /\ ret[1]["op"] = "queue_update"
    /\ ret[1]["err"] = "none"
    /\ ret[1]["key"] = "title"
    /\ ret[1]["val"] = "Y"
    /\ \E k \in DOMAIN showlist[1] :
          showlist[1][k] = ret[1]["obj"] /\ Get(1)[k]["title"] = "Y"

\* the update items for the identity id in the queue q
UpdatesFor(hp, q, id) ==
    {i \in 1 .. Len(q) : hp[q[i]]["id"] = id /\ hp[q[i]]["action"] = "update"}

\* C5: two consecutive successful queue_update calls on the same show
\* identity leave exactly one update item for that identity in the queue; it
\* carries the fields of both calls, with the value of the later call where
\* both change the same field.
C5_UpdateMerge ==
    [][\A p \in Procs :
         (/\ Called(p, "queue_update")
          /\ ret'[p]["err"] = "none"
          /\ ret[p]["op"] = "queue_update"
          /\ ret[p]["err"] = "none"
          /\ ret[p]["id"] = ret'[p]["id"])
         => LET q2 == QueueNext(p)
                ups == UpdatesFor(heap', q2, ret'[p]["id"])
            IN /\ Cardinality(ups) = 1
               /\ \A i \in ups :
                     /\ ret'[p]["key"] \in DOMAIN heap'[q2[i]]
                     /\ heap'[q2[i]][ret'[p]["key"]] = ret'[p]["val"]
                     /\ ret[p]["key"] \in DOMAIN heap'[q2[i]]
                     /\ ret[p]["key"] # ret'[p]["key"]
                           => heap'[q2[i]][ret[p]["key"]] = ret[p]["val"]]_vars

\* C6: queue_clear() on an empty queue fails with the empty-queue error and
\* changes nothing; on a non-empty queue it empties the queue in memory and
\* the persisted queue and leaves the show list and the persisted cache as
\* they were.
C6_QueueClear ==
    [][\A p \in Procs :
         Called(p, "queue_clear") =>
            IF Len(Queue(p)) = 0
            THEN /\ ret'[p]["err"] = "EmptyQueue"
                 /\ UNCHANGED <<files, heap, classQueue, instQueue, hasInst,
                                showlist, pc>>
            ELSE /\ ret'[p]["err"] = "none"
                 /\ QueueNext(p) = <<>>
                 /\ queueFile'[dir[p]] = <<<<>>>>
                 /\ showlist' = showlist
                 /\ Get(p)' = Get(p)
                 /\ cacheFile' = cacheFile]_vars

\* C6 witness: a queue that held items has just been cleared; the queue in
\* memory and on disk is empty while the show list still holds the added show
C6_Witness ==
    /\ ret[1] = [op |-> "queue_clear", err |-> "none"]
    /\ Queue(1) = <<>>
    /\ queueFile[1] = <<<<>>>>
    /\ "b" \in DOMAIN showlist[1]
    /\ cacheFile[1] = <<Get(1)>>

\* the items of the drain of p whose API call failed, in the order the queue
\* held them when the drain began
FailedItems(p) ==
    SelectSeq(drainOrig[p],
              LAMBDA o : \E i \in 1 .. Len(attempts[p]) :
                            /\ attempts[p][i]["obj"] = o
                            /\ attempts[p][i]["result"] = "failed")

\* C7: after process_queue() the queue in memory and on disk is exactly the
\* items whose remote call failed, in their original order; it is empty when
\* every call succeeded.
C7_DrainResult ==
    [][\A p \in Procs :
         (pc[p] = "drain" /\ pc'[p] # "drain") =>
            /\ QueueNext(p) = FailedItems(p)
            /\ queueFile'[dir[p]] =
                  <<[i \in 1 .. Len(FailedItems(p)) |-> heap[FailedItems(p)[i]]]>>
            /\ (\A i \in 1 .. Len(attempts[p]) : attempts[p][i]["result"] # "failed")
                  => queueFile'[dir[p]] = <<<<>>>>]_vars

\* C7 witness: a drain of three items in which only the call of the second
\* failed has ended, and the queue in memory and on disk holds that item alone
C7_Witness ==
    /\ pc[1] \in {"started", "unlocking"}
    /\ Len(drainOrig[1]) = 3
    /\ [i \in 1 .. 3 |-> attempts[1][i]["result"]] = <<"ok", "failed", "ok">>
    /\ Queue(1) = <<drainOrig[1][2]>>
    /\ queueFile[1] = <<<<heap[drainOrig[1][2]]>>>>

\* C8: one process_queue() call takes each item that was in the queue at call
\* time exactly once, front to back, and then ends: an item put back at the
\* tail is not taken again, and the loop can always make its next step.
C8_DrainOnce ==
    \A p \in Procs :
        /\ drainN[p] = Len(drainOrig[p])
        /\ drainI[p] <= drainN[p]
        /\ Len(attempts[p]) = drainI[p]
        /\ \A i \in 1 .. Len(attempts[p]) : attempts[p][i]["obj"] = drainOrig[p][i]
        /\ pc[p] = "drain" =>
              \/ drainI[p] < drainN[p] /\ ENABLED (\E ok \in BOOLEAN : DrainStep(p, ok))
              \/ drainI[p] = drainN[p] /\ ENABLED DrainSave(p)

\* C8 witness: a drain of two items has ended in which every call failed
C8_Witness ==
    /\ pc[1] \in {"started", "unlocking"}
    /\ Len(drainOrig[1]) = 2
    /\ Len(attempts[1]) = 2
    /\ \A i \in 1 .. 2 : attempts[1][i]["result"] = "failed"
    /\ Queue(1) = drainOrig[1]

\* C9: unload() ends with the lock marker removed whichever remote calls
\* fail, and the marker is removed only after the drain has taken every item
\* and its resulting queue is on disk.  While unload() runs the marker is
\* there and the next step of unload() can be taken; every step of the drain
\* is one more iteration or the end of the loop, and the step after the drain
\* removes the marker.
C9_UnloadUnlocks ==
    /\ [](\A p \in Procs :
            (caller[p] = "unload" /\ pc[p] \in {"drain", "unlocking"}) =>
               /\ lockFile[dir[p]]
               /\ drainI[p] <= drainN[p]
               /\ pc[p] = "drain" /\ drainI[p] < drainN[p]
                     => ENABLED (\E ok \in BOOLEAN : DrainStep(p, ok))
               /\ pc[p] = "drain" /\ drainI[p] = drainN[p] => ENABLED DrainSave(p)
               /\ pc[p] = "unlocking" => ENABLED Unlock(p))
    /\ [][\A p \in Procs :
            /\ (pc[p] = "drain" /\ caller[p] = "unload")
                  => \/ pc'[p] = "drain" /\ drainI'[p] = drainI[p] + 1
                     \/ pc'[p] = "unlocking" /\ drainI[p] = drainN[p]
            /\ (pc[p] = "started" /\ caller'[p] = "unload" /\ pc'[p] # "started")
                  => pc'[p] \in {"drain", "unlocking"}
            /\ (pc[p] = "unlocking" /\ pc'[p] # "unlocking")
                  => /\ pc'[p] = "unloaded"
                     /\ ~lockFile'[dir[p]]
                     /\ ret'[p] = [op |-> "unload", err |-> "none"]
                     /\ drainI[p] = drainN[p]
                     /\ Len(attempts[p]) = Len(drainOrig[p])
                     /\ Queue(p) = FailedItems(p)
                     /\ drainOrig[p] # <<>>
                           => queueFile[dir[p]] = <<PickleQueue(heap, Queue(p))>>]_vars

\* C9 witness: an unload has ended with the marker removed although a remote
\* call of its drain failed and the item is still queued
C9_Witness ==
    /\ pc[1] = "unloaded"
    /\ ~lockFile[1]
    /\ \E i \in 1 .. Len(attempts[1]) : attempts[1][i]["result"] = "failed"
    /\ Len(queueFile[1][1]) > 0

\* C10: start() fetches the remote list if and only if there is no cache
\* file: with a cache the show list becomes the persisted snapshot, without
\* one it becomes the fetched list, which is saved before start() returns.
\* What a successful queue_add saved stays in the cache, so the show is in the
\* list after a restart.
C10_StartFetch ==
    [][\A p \in Procs :
         /\ (pc[p] = "loading" /\ pc'[p] # "loading") =>
               IF cacheFile[dir[p]] # <<>>
               THEN /\ ret'[p]["err"] = "none"
                    /\ ret'[p]["fetch"] = "none"
                    /\ Get(p)' = cacheFile[dir[p]][1]
                    /\ cacheFile' = cacheFile
               ELSE /\ ret'[p]["fetch"] # "none"
                    /\ ret'[p]["err"] = "none" =>
                          /\ ret'[p]["list"] \in RemoteLists
                          /\ Get(p)' = ret'[p]["list"]
                          /\ cacheFile'[dir[p]] = <<Get(p)'>>
         /\ (Called(p, "queue_add") /\ ret'[p]["err"] = "none") =>
               /\ cacheFile'[dir[p]] # <<>>
               /\ ret'[p]["show"]["id"] \in DOMAIN cacheFile'[dir[p]][1]
         /\ \A d \in Dirs :
               cacheFile[d] # <<>> =>
                  /\ cacheFile'[d] # <<>>
                  /\ DOMAIN cacheFile[d][1] \subseteq DOMAIN cacheFile'[d][1]]_vars

\* C10 witness: a restarted handler has loaded the cache without a fetch and
\* its list holds show b, which only queue_add in the earlier lifetime put there
C10_Witness ==
    /\ lives = 2
    /\ pc[1] = "started"
    /\ ret[1]["op"] = "start"
    /\ ret[1]["fetch"] = "none"
    /\ "b" \in DOMAIN Get(1)
    /\ Get(1) = cacheFile[1][1]

\* the object o is an item of the sequence q
InQueue(q, o) == \E j \in 1 .. Len(q) : q[j] = o

\* the attempts of the drain of p that took an item out of the queue
Delivered(p) ==
    {i \in 1 .. Len(attempts[p]) : attempts[p][i]["result"] \in {"ok", "skipped"}}

\* C11: no queued item is silently lost.  An item leaves the queue of a
\* started handler only when the drain took it and its remote call succeeded
\* or its action is unknown, or when queue_clear() ran; the saved queue shrinks only by queue_clear() or by the
\* items a drain delivered; start() loads the saved queue as it is; and the
\* items whose call failed during unload() are on disk when unload() ends and
\* stay there until the next start() has loaded them.
C11_NoItemLost ==
    [][/\ \A p \in Procs :
            LET d == dir[p]
                q == Queue(p)
            IN /\ \A i \in 1 .. Len(q) :
                     (pc[p] \in {"started", "drain", "unlocking"}
                         /\ ~InQueue(QueueNext(p), q[i])) =>
                        \/ /\ pc[p] = "drain" /\ pc'[p] = "drain"
                           /\ i = 1
                           /\ attempts'[p][Len(attempts'[p])]["obj"] = q[i]
                           /\ attempts'[p][Len(attempts'[p])]["result"] \in {"ok", "skipped"}
                           /\ attempts'[p][Len(attempts'[p])]["result"] = "skipped"
                                 <=> Dispatch(heap[q[i]]) = "none"
                        \/ Called(p, "queue_clear") /\ ret'[p]["err"] = "none"
               /\ (pc[p] = "loading" /\ pc'[p] = "started" /\ queueFile[d] # <<>>) =>
                     /\ PickleQueue(heap', QueueNext(p)) = queueFile[d][1]
                     /\ queueFile' = queueFile
               /\ (pc[p] = "unlocking" /\ pc'[p] = "unloaded") =>
                     /\ queueFile'[d] # <<>> \/ FailedItems(p) = <<>>
                     /\ FailedItems(p) # <<>> =>
                           queueFile'[d][1] = PickleQueue(heap, FailedItems(p))
               /\ (pc[p] \in {"unloaded", "new", "locking"} /\ pc'[p] # pc[p]) =>
                     queueFile' = queueFile
       /\ \A d \in Dirs :
            queueFile[d] # <<>> =>
               /\ queueFile'[d] # <<>>
               /\ Len(queueFile'[d][1]) < Len(queueFile[d][1]) =>
                     \E p \in Procs :
                        /\ dir[p] = d
                        /\ \/ Called(p, "queue_clear") /\ ret'[p]["err"] = "none"
                           \/ /\ pc[p] = "drain" /\ pc'[p] # "drain"
                              /\ Len(queueFile'[d][1]) =
                                    Len(queueFile[d][1]) - Cardinality(Delivered(p))]_vars

\* C11 witness: the handler of the second lifetime has loaded from disk an
\* item that the unload of the first lifetime could not deliver
C11_Witness ==
    /\ lives = 2
    /\ ops = 1
    /\ pc[1] = "started"
    /\ ret[1]["op"] = "start"
    /\ hasInst[1]
    /\ Len(Queue(1)) = 1
    /\ PickleQueue(heap, Queue(1)) = queueFile[1][1]

\* the queue file of directory d holds the value of every item of the queue
\* that process p has after the step, in order
QueueOnDisk(p, d) ==
    /\ queueFile'[d] # <<>>
    /\ Len(queueFile'[d][1]) = Len(QueueNext(p))
    /\ \A i \in 1 .. Len(QueueNext(p)) :
          queueFile'[d][1][i] = heap'[QueueNext(p)[i]]

\* the cache file of directory d holds the value of every show that process p
\* has in its show list after the step
ListOnDisk(p, d) ==
    /\ cacheFile'[d] # <<>>
    /\ DOMAIN cacheFile'[d][1] = DOMAIN showlist'[p]
    /\ \A k \in DOMAIN showlist'[p] :
          cacheFile'[d][1][k] = heap'[showlist'[p][k]]

\* C12: when queue_add, queue_update, queue_clear or process_queue on a queue
\* with items returns successfully, the queue file holds the queue in memory;
\* after queue_add and queue_update the cache file holds the show list in
\* memory.
C12_Durability ==
    [][\A p \in Procs :
         /\ ((Called(p, "queue_add") \/ Called(p, "queue_update"))
                /\ ret'[p]["err"] = "none") =>
               QueueOnDisk(p, dir[p]) /\ ListOnDisk(p, dir[p])
         /\ (Called(p, "queue_clear") /\ ret'[p]["err"] = "none") =>
               QueueOnDisk(p, dir[p])
         /\ (pc[p] = "drain" /\ pc'[p] # "drain" /\ drainN[p] > 0) =>
               QueueOnDisk(p, dir[p])]_vars

\* C12 witness: a queue_update has returned with two items in the queue, and
\* both files hold what is in memory
C12_Witness ==
    /\ pc[1] = "started"
    /\ ret[1]["op"] = "queue_update"
    /\ ret[1]["err"] = "none"
    /\ Len(Queue(1)) = 2
    /\ queueFile[1] = <<PickleQueue(heap, Queue(1))>>
    /\ cacheFile[1] = <<Get(1)>>

\* the positions of the add items for the identity id in the queue q
AddsFor(hp, q, id) ==
    {i \in 1 .. Len(q) : hp[q[i]]["id"] = id /\ hp[q[i]]["action"] = "add"}

\* C13: in every reachable state the queue of a started handler holds at
\* most one add item per show identity.
C13_OneAdd ==
    \A p \in Procs :
       pc[p] = "started" =>
          \A id \in ShowIds : Cardinality(AddsFor(heap, Queue(p), id)) <= 1

\* C14: in every reachable state the queue of a started handler holds at
\* most one update item per show identity.
C14_OneUpdate ==
    \A p \in Procs :
       pc[p] = "started" =>
          \A id \in ShowIds : Cardinality(UpdatesFor(heap, Queue(p), id)) <= 1

\* the step is a call by process p of queue_add, queue_update or queue_clear
\* that raises one of the recoverable errors
Raised(p) ==
    /\ Called(p, "queue_add") \/ Called(p, "queue_update") \/ Called(p, "queue_clear")
    /\ ret'[p]["err"] # "none"

\* C15: a call of queue_add, queue_update or queue_clear that raises a
\* recoverable error leaves the show list and the queue in memory and both
\* files as they were, and what is in memory after the call is what the files
\* hold.
C15_ErrorsKeepState ==
    [][\A p \in Procs :
         Raised(p) =>
            /\ PickleList(heap', showlist'[p]) = Get(p)
            /\ PickleQueue(heap', QueueNext(p)) = PickleQueue(heap, Queue(p))
            /\ files' = files
            /\ cacheFile'[dir[p]] = <<PickleList(heap', showlist'[p])>>
            /\ \/ queueFile'[dir[p]] = <<PickleQueue(heap', QueueNext(p))>>
               \/ queueFile'[dir[p]] = <<>> /\ QueueNext(p) = <<>>]_vars

\* C16: the duplicate-queue-item error of queue_add is never raised, because
\* in every reachable state of a started handler each show identity with a
\* pending add item in the queue is a key of the show list.
C16_AddsAreListed ==
    \A p \in Procs :
       pc[p] = "started" =>
          /\ ret[p]["err"] # "DuplicateQueueItem"
          /\ \A i \in 1 .. Len(Queue(p)) :
                heap[Queue(p)[i]]["action"] = "add" =>
                   heap[Queue(p)[i]]["id"] \in DOMAIN showlist[p]

\* C17: a start() that finds no queue file leaves the handler with an empty
\* queue, also a handler created in a process where an earlier handler has
\* queued items.
C17_StartsEmpty ==
    [][\A p \in Procs :
         (pc[p] = "loading" /\ pc'[p] = "started" /\ ~QueueExists(dir[p])) =>
            QueueNext(p) = <<>>]_vars

\* C18: show list records and queue items are separate values.  A successful
\* queue_add leaves the record it stored in the show list without an action
\* field, and a queue_update leaves the content of every add item that is
\* already in the queue as it was.
C18_Independent ==
    [][\A p \in Procs :
         /\ (Called(p, "queue_add") /\ ret'[p]["err"] = "none") =>
               "action" \notin DOMAIN heap'[showlist'[p][ret'[p]["show"]["id"]]]
         /\ Called(p, "queue_update") =>
               \A i \in 1 .. Len(Queue(p)) :
                  heap[Queue(p)[i]]["action"] = "add" =>
                     heap'[Queue(p)[i]] = heap[Queue(p)[i]]]_vars

\* C20: a start() that fails after _lock has created the marker does not
\* leave it behind: after a start() that raised APIFatal the marker of the
\* handler's data directory is absent.
C20_FailedStartUnlocks ==
    \A p \in Procs :
       (pc[p] = "failed" /\ ret[p]["op"] = "start" /\ ret[p]["err"] = "APIFatal") =>
          ~lockFile[dir[p]]

\* the queue file of directory d is absent or holds an empty queue
NothingPending(d) == queueFile[d] = <<>> \/ queueFile[d] = <<<<>>>>

\* C19: under repeated start()/unload() cycles, once no new items are queued
\* and every remote call succeeds, the queue on disk becomes empty and stays
\* empty; and the drain of unload() in a cycle that made no change of its own
\* starts from the queue the previous cycle left on disk and makes exactly one
\* attempt for each of its items, in order.
C19_Converges ==
    /\ <>[](\A d \in Dirs : NothingPending(d))
    /\ [][\A p \in Procs :
            /\ (pc[p] = "started" /\ pc'[p] \in {"drain", "unlocking"}
                   /\ ret[p]["op"] = "start" /\ QueueExists(dir[p])) =>
                  PickleQueue(heap, drainOrig'[p]) = queueFile[dir[p]][1]
            /\ (pc[p] = "drain" /\ pc'[p] = "unlocking") =>
                  /\ Len(attempts[p]) = Len(drainOrig[p])
                  /\ \A i \in 1 .. Len(drainOrig[p]) :
                        attempts[p][i]["obj"] = drainOrig[p][i]]_vars

\* C19 witness: a later run has loaded the item that an earlier unload() could
\* not deliver, has delivered it, and has left an empty queue on disk
C19_Witness ==
    /\ lives > 1
    /\ ops = 1
    /\ pc[1] = "unloaded"
    /\ hasInst[1]
    /\ drainOrig[1] # <<>>
    /\ \A i \in 1 .. Len(attempts[1]) : attempts[1][i]["result"] = "ok"
    /\ queueFile[1] = <<<<>>>>

====
